---- MODULE Spec2Model ----
(***************************************************************************)
(* Upload orchestration of KunalSingh19/Youtube-Automation:                *)
(*   src/src/history.py    load_upload_history / save_upload_history       *)
(*   src/src/processor.py  load_and_filter_data / process_uploads          *)
(*   src/src/accounts.py   authenticate_accounts                           *)
(*                                                                         *)
(* One process runs at a time.  The state is the two ledger files on disk  *)
(* (upload_history.json and upload_history.json.backup), the arguments of  *)
(* the invocation, and the locals of process_uploads.  One loop iteration  *)
(* of process_uploads is one action; a kill of the process is an action of *)
(* its own, and a kill that lands inside save_upload_history leaves the    *)
(* files as the executed prefix of that function left them.                *)
(*                                                                         *)
(* Collaborators answer within their documented contracts:                 *)
(*   download_video raises or returns, get_video_duration returns a        *)
(*   duration or -1, initialize_upload returns an id, raises               *)
(*   QuotaExceededError or raises another exception.                       *)
(* Spec is the program on a file system that works: every step of          *)
(* save_upload_history succeeds.  SpecSaveFaults adds the runs in which a  *)
(* step of save_upload_history raises and the function returns False.      *)
(***************************************************************************)
EXTENDS Integers, Sequences, FiniteSets, TLC

\* ---------------------------------------------------------------- bounds
MaxCatalog == 3        \* identifiers in the catalog
MaxTarget == 2         \* largest target_successes
MaxAccounts == 2       \* longest list of account names
MaxSaveFaults == 1     \* save_upload_history calls that fail, per behaviour
MaxBatch == 2          \* largest --batch-size of src/main.py

AccountNames == {"a", "b"}

Urls == 1..MaxCatalog

\* ---------------------------------------------------------------- ledger
EmptyLedger == << >>

\* Put that replaces the dict by one that holds only the new key.
Put_Replaces(h, k, v) == [x \in {k} |-> v]

Put(h, k, v) == [x \in (DOMAIN h) \cup {k} |-> IF x = k THEN v ELSE h[x]]

FailedRec(reason) == [status |-> "failed", reason |-> reason]

\* FailedAccRec without the "reason" key.
FailedAccRec_NoReason(reason, acc) ==
    [status |-> "failed", account |-> acc]

FailedAccRec(reason, acc) ==
    [status |-> "failed", reason |-> reason, account |-> acc]

SuccessRec(vid, acc) ==
    [status |-> "success", youtube_video_id |-> vid, account |-> acc]

\* ---------------------------------------------------------------- files
\* A file is absent, empty (size 0), partial (truncated JSON) or holds the
\* JSON text of a ledger.
FileAbsent == [st |-> "absent", data |-> EmptyLedger]
FileEmpty == [st |-> "empty", data |-> EmptyLedger]
FilePartial == [st |-> "partial", data |-> EmptyLedger]
FileJson(h) == [st |-> "json", data |-> h]

Exists(f) == f.st # "absent"

load_upload_history(f) ==
    IF Exists(f)
    THEN IF f.st = "json" THEN f.data ELSE EmptyLedger
    ELSE EmptyLedger

\* Files after the except-branch of save_upload_history.
SaveRestore(h, b) ==
    IF Exists(b)
    THEN [hist |-> b, backup |-> FileAbsent, ok |-> FALSE]
    ELSE [hist |-> h, backup |-> b, ok |-> FALSE]

\* Files after os.replace(history_file, backup_file), when the file exists.
SaveBackedUp(h, b) ==
    IF Exists(h)
    THEN [hist |-> FileAbsent, backup |-> h]
    ELSE [hist |-> h, backup |-> b]

SaveFaults == {"none", "replace", "open", "write"}

\* save_upload_history with the backup taken after the write instead of
\* before it: the new file is what os.replace moves away.
save_upload_history_BackupLast(h, b, dict, fault) ==
    [hist |-> FileAbsent, backup |-> FileJson(dict), ok |-> TRUE]

\* save_upload_history(history_file, history_dict); fault names the step
\* that raises, "none" when no step does.
save_upload_history(h, b, dict, fault) ==
    IF fault = "replace" /\ Exists(h)
    THEN SaveRestore(h, b)
    ELSE LET m == SaveBackedUp(h, b) IN
         IF fault = "open" THEN SaveRestore(m.hist, m.backup)
         ELSE IF fault = "write" THEN SaveRestore(FilePartial, m.backup)
         ELSE [hist |-> FileJson(dict), backup |-> m.backup, ok |-> TRUE]

KillPoints == {"after_replace", "after_open"}

\* Files when the process is killed inside save_upload_history.
SaveKilled(h, b, point) ==
    LET m == SaveBackedUp(h, b) IN
    IF point = "after_replace"
    THEN [hist |-> m.hist, backup |-> m.backup]
    ELSE [hist |-> FileEmpty, backup |-> m.backup]

\* ---------------------------------------------------------------- catalog
RECURSIVE Dedupe(_, _)
\* The keys of a dict after the insertions of items, in order: a key sits
\* where it was first inserted.
Dedupe(items, seen) ==
    IF items = << >> THEN << >>
    ELSE IF Head(items) \in seen
         THEN Dedupe(Tail(items), seen)
         ELSE <<Head(items)>> \o Dedupe(Tail(items), seen \cup {Head(items)})

\* The payloads that a member of the catalog file can carry.
Payloads == {"D1", "D2"}

\* Data/reelsData.json is absent, or holds the text of a JSON object: its
\* members <<url, data>> in the order of the text.  The text may name the
\* same url more than once.
CatalogAbsent == [st |-> "absent", members |-> << >>]
CatalogText(members) == [st |-> "json", members |-> members]

\* the urls of a sequence of <<url, data>> pairs
Keys(items) == [i \in 1..Len(items) |-> items[i][1]]

\* The data of the last member of the text that is named k.
LastValue(members, k) ==
    LET last == CHOOSE i \in 1..Len(members) :
                    /\ members[i][1] = k
                    /\ \A j \in (i + 1)..Len(members) : members[j][1] # k
    IN  members[last][2]

\* json.load of the text: a dict, as the sequence of its items.  A key sits
\* where it was first inserted and holds the value that was assigned last.
json_load(members) ==
    LET ks == Dedupe(Keys(members), {}) IN
    [i \in 1..Len(ks) |-> <<ks[i], LastValue(members, ks[i])>>]

RECURSIVE DedupeLoop(_, _, _, _)
\* The "Dedupe" loop of load_and_filter_data over insta_data.items().
DedupeLoop(items, seen, unique_data, duplicates) ==
    IF items = << >>
    THEN [unique_data |-> unique_data, duplicates |-> duplicates]
    ELSE IF Head(items)[1] \in seen
         THEN DedupeLoop(Tail(items), seen, unique_data, duplicates + 1)
         ELSE DedupeLoop(Tail(items), seen \cup {Head(items)[1]},
                         Append(unique_data, Head(items)), duplicates)

\* FilterNew with a filter that lets identifiers with a failed record back
\* into the queue.
FilterNew_KeepsFailed(insta_data, hist) ==
    SelectSeq(DedupeLoop(insta_data, {}, << >>, 0).unique_data,
              LAMBDA item : item[1] \notin DOMAIN hist
                                \/ hist[item[1]].status = "failed")

\* FilterNew that returns the new items in reverse order.
FilterNew_Reversed(insta_data, hist) ==
    LET q == SelectSeq(DedupeLoop(insta_data, {}, << >>, 0).unique_data,
                       LAMBDA item : item[1] \notin DOMAIN hist)
    IN  [i \in 1..Len(q) |-> q[Len(q) + 1 - i]]

\* new_items_list of load_and_filter_data: the items of insta_data, in
\* their order, whose url is no key of the ledger.
FilterNew(insta_data, hist) ==
    SelectSeq(DedupeLoop(insta_data, {}, << >>, 0).unique_data,
              LAMBDA item : item[1] \notin DOMAIN hist)

\* load_and_filter_data that returns an empty queue instead of raising.
load_and_filter_data_NoEmptyCheck(cf, hf) ==
    IF cf.st = "absent"
    THEN [exc |-> "FileNotFoundError", queue |-> << >>, duplicates |-> 0]
    ELSE LET insta_data == json_load(cf.members) IN
         [exc |-> "none",
          queue |-> FilterNew(insta_data, load_upload_history(hf)),
          duplicates |-> DedupeLoop(insta_data, {}, << >>, 0).duplicates]

\* load_and_filter_data(): cf is the catalog file, hf the ledger file.
load_and_filter_data(cf, hf) ==
    IF cf.st = "absent"
    THEN [exc |-> "FileNotFoundError", queue |-> << >>, duplicates |-> 0]
    ELSE LET insta_data == json_load(cf.members)
             queue == FilterNew(insta_data, load_upload_history(hf))
         IN  [exc |-> IF queue = << >> THEN "ValueError" ELSE "none",
              queue |-> queue,
              duplicates |-> DedupeLoop(insta_data, {}, << >>, 0).duplicates]

\* insta_data.keys() after json.load, << >> when there is no file
CatalogKeys(cf) ==
    IF cf.st = "absent" THEN << >> ELSE Keys(json_load(cf.members))

\* ---------------------------------------------------------------- accounts
\* authenticate_accounts that gives up the whole pool when one account
\* fails to authenticate.
authenticate_accounts_AllOrNothing(names, ok) ==
    IF \E i \in 1..Len(names) : names[i] \notin ok
    THEN [services |-> << >>, num |-> 0]
    ELSE [services |-> Dedupe(names, {}), num |-> Len(names)]

\* authenticate_accounts: ok is the set of names whose authentication
\* succeeds.  The dict keeps one key per name, in order of first insertion;
\* num_accounts counts every successful authentication.
authenticate_accounts(names, ok) ==
    LET good == SelectSeq(names, LAMBDA n : n \in ok) IN
    [services |-> Dedupe(good, {}), num |-> Len(good)]

\* The creds directory: whether it exists, its subfolders in the order of
\* os.listdir, and the subfolders that hold client_secrets.json.
NoCreds == [exists |-> FALSE, subdirs |-> << >>, secrets |-> {}]

\* get_account_names whose fallback returns every valid subfolder.
get_account_names_FallbackAll(creds, arg, all) ==
    LET valid(n) ==
            /\ \E i \in 1..Len(creds.subdirs) : creds.subdirs[i] = n
            /\ n \in creds.secrets
        named == SelectSeq(arg, valid)
        found == SelectSeq(creds.subdirs, valid)
    IN  IF ~creds.exists \/ creds.subdirs = << >>
        THEN [exc |-> "ValueError", names |-> << >>]
        ELSE IF arg # << >>
        THEN [exc |-> IF named = << >> THEN "ValueError" ELSE "none",
              names |-> named]
        ELSE [exc |-> IF found = << >> THEN "ValueError" ELSE "none",
              names |-> found]

\* get_account_names(creds_dir, accounts_arg, all_accounts): arg is the
\* list of the names between the commas of accounts_arg, << >> when the
\* option is not given.
get_account_names(creds, arg, all) ==
    LET valid(n) ==
            /\ \E i \in 1..Len(creds.subdirs) : creds.subdirs[i] = n
            /\ n \in creds.secrets
        named == SelectSeq(arg, valid)
        found == SelectSeq(creds.subdirs, valid)
    IN  IF ~creds.exists \/ creds.subdirs = << >>
        THEN [exc |-> "ValueError", names |-> << >>]
        ELSE IF arg # << >>
        THEN [exc |-> IF named = << >> THEN "ValueError" ELSE "none",
              names |-> named]
        ELSE IF all
        THEN [exc |-> IF found = << >> THEN "ValueError" ELSE "none",
              names |-> found]
        ELSE IF found = << >>
        THEN [exc |-> "ValueError", names |-> << >>]
        ELSE [exc |-> "none", names |-> <<found[1]>>]

\* ---------------------------------------------------------------- candidate
\* "if duration > 60": the longest duration that is uploaded
ShortsLimit == 60

\* the answers of get_video_duration: -1 (unavailable), or seconds
Durations == {-1, ShortsLimit, ShortsLimit + 1}

\* What one iteration finds for its candidate:
\*   json_ok      the catalog entry parses (lines 94-114 raise nothing)
\*   remote       video_url starts with http:// or https://
\*   file         the file at the local path before the attempt
\*   download_ok  download_video returns (it is called when remote and the
\*                file is missing or empty)
\*   duration     the answer of get_video_duration
\*   answer       the answer of initialize_upload
\* A field that the iteration does not get to read has its first value.
FileReady(e) ==
    /\ e.json_ok
    /\ IF e.remote THEN e.file = "ok" \/ e.download_ok ELSE e.file = "ok"

Envs ==
    {e \in [json_ok : BOOLEAN, remote : BOOLEAN,
            file : {"missing", "empty", "ok"}, download_ok : BOOLEAN,
            duration : Durations,
            answer : {"upload_error", "success", "quota"}] :
        /\ ~e.json_ok => ~e.remote /\ e.file = "missing"
        /\ ~(e.json_ok /\ e.remote /\ e.file # "ok") => ~e.download_ok
        /\ ~FileReady(e) => e.duration = -1
        /\ ~(FileReady(e) /\ e.duration # -1 /\ e.duration <= ShortsLimit)
               => e.answer = "upload_error"}

\* the value of probe while no iteration is observed
NoProbe ==
    [json_ok |-> FALSE, remote |-> FALSE, file |-> "missing",
     download_ok |-> FALSE, duration |-> -1, answer |-> "none"]

\* PreUploadOutcome that rejects a duration of exactly ShortsLimit.
PreUploadOutcome_LimitTooLong(e) ==
    IF ~e.json_ok THEN "json_error"
    ELSE IF e.remote /\ e.file # "ok" /\ ~e.download_ok
    THEN "download_failed"
    ELSE IF ~e.remote /\ e.file = "missing" THEN "file_missing"
    ELSE IF ~e.remote /\ e.file = "empty" THEN "file_empty"
    ELSE IF e.duration = -1 THEN "duration_unavailable"
    ELSE IF e.duration >= ShortsLimit THEN "too_long"
    ELSE "ready"

\* The checks of an iteration before the upload call, in the order of the
\* code: the failure that ends the iteration, or "ready".
PreUploadOutcome(e) ==
    IF ~e.json_ok THEN "json_error"
    ELSE IF e.remote /\ e.file # "ok" /\ ~e.download_ok
    THEN "download_failed"
    ELSE IF ~e.remote /\ e.file = "missing" THEN "file_missing"
    ELSE IF ~e.remote /\ e.file = "empty" THEN "file_empty"
    ELSE IF e.duration = -1 THEN "duration_unavailable"
    ELSE IF e.duration > ShortsLimit THEN "too_long"
    ELSE "ready"

\* the outcome of the iteration
OutcomeOf(e) ==
    IF PreUploadOutcome(e) = "ready" THEN e.answer ELSE PreUploadOutcome(e)

\* The copy of the candidate under tmp/ when the checks are done: remote
\* candidates are downloaded to tmp/, and download_video leaves no file
\* when it raises.
TmpFileOf(e) ==
    IF e.json_ok /\ e.remote
    THEN IF e.file = "ok" \/ e.download_ok THEN "present" ELSE "absent"
    ELSE "none"

\* AfterRemove that counts the success only when the file was removed.
AfterRemove_CountsIfRemoved(tmp, remove_ok) ==
    [tmp |-> IF tmp = "present" /\ remove_ok THEN "deleted" ELSE tmp,
     counted |-> remove_ok]

\* The statements after the save of a success record: os.remove of the
\* file under tmp/, whose OSError is caught, then "uploaded_count += 1".
AfterRemove(tmp, remove_ok) ==
    [tmp |-> IF tmp = "present" /\ remove_ok THEN "deleted" ELSE tmp,
     counted |-> TRUE]

\* ---------------------------------------------------------------- state
VARIABLES
    catalogFile,       \* Data/reelsData.json
    catalog,           \* the keys of insta_data after json.load, in order
    account_names,     \* the account names selected for the invocation
    auth_ok,           \* the names whose credentials authenticate
    target_successes,  \* argument of process_uploads
    upscale,           \* argument of process_uploads
    batch_limit,       \* --batch-size of src/main.py
    upload_one_mode,
    creds_dir,         \* the creds directory that get_account_names reads
    accounts_arg,      \* the names of the accounts option, in order
    all_accounts,      \* the all-accounts option
   \* --upload-one of src/main.py
    histFile,          \* upload_history.json
    backupFile,        \* upload_history.json.backup
    pc,                \* start, loop, returned, raised, aborted, killed,
                       \* killed_in_save
    exc,               \* the exception that ended the run, "none" if none
    upload_history,    \* the in-memory ledger dict
    new_items_list,    \* the queue: <<url, data>> pairs
    duplicates,        \* the duplicates that load_and_filter_data reported
    account_services,  \* keys of the pool dict, in order
    num_accounts,
    video_index,
    account_index,
    uploaded_count,
    skipped_count,
    exit_code,         \* the exit status of src/main.py, once pc = "exited"
    probe,             \* what the last iteration found for its candidate
    tmp_file,          \* the copy of that candidate under tmp/
    attempt,           \* loop variable of initialize_upload
    retry_delay,       \* local of initialize_upload
    upload_result,     \* what initialize_upload returned or raised
    calls,             \* the answers of insert_request.execute(), in order
    sleeps,            \* the arguments of time.sleep, in order
    caption,           \* the description of the candidate, word by word
    tags,              \* options.tags
    local_path,        \* the file at local_path of download_video
    download_result,   \* how download_video ended
    attempts,          \* the iterations of this run, one entry each
    run_start,         \* the ledger dict as it was when the run started
    last_saved,        \* the dict of the last save that returned True
    save_faults        \* saves that returned False so far

options == <<catalogFile, catalog, auth_ok, target_successes, upscale,
             batch_limit, upload_one_mode>>
selection == <<creds_dir, accounts_arg, all_accounts>>
args == <<options, account_names, selection>>
files == <<histFile, backupFile>>
locals == <<upload_history, new_items_list, duplicates, account_services,
            num_accounts, video_index, account_index, uploaded_count,
            skipped_count, exit_code>>
ghosts == <<attempts, run_start, last_saved, save_faults>>
uploader == <<attempt, retry_delay, upload_result, calls, sleeps>>
observed == <<probe, tmp_file>>
tagging == <<caption, tags>>
downloader == <<local_path, download_result>>
vars == <<args, files, pc, exc, locals, ghosts, uploader, observed, tagging,
          downloader>>

RECURSIVE SeqsUpTo(_, _)
\* the sequences over S of length 1..n
SeqsUpTo(S, n) ==
    IF n = 0 THEN {}
    ELSE LET shorter == SeqsUpTo(S, n - 1) IN
         {<<x>> : x \in S} \cup shorter
             \cup {Append(q, x) : q \in shorter, x \in S}

\* The state of the process before its first statement.
Fresh ==
    /\ pc = "start"
    /\ creds_dir = NoCreds
    /\ accounts_arg = << >>
    /\ all_accounts = FALSE
    /\ exc = "none"
    /\ upload_history = EmptyLedger
    /\ new_items_list = << >>
    /\ duplicates = 0
    /\ account_services = << >>
    /\ num_accounts = 0
    /\ video_index = 0
    /\ account_index = 0
    /\ uploaded_count = 0
    /\ skipped_count = 0
    /\ exit_code = 0
    /\ probe = NoProbe
    /\ tmp_file = "none"
    /\ attempt = 0
    /\ retry_delay = 0
    /\ upload_result = "none"
    /\ calls = << >>
    /\ sleeps = << >>
    /\ caption = << >>
    /\ tags = << >>
    /\ local_path = "absent"
    /\ download_result = "none"
    /\ attempts = << >>
    /\ run_start = EmptyLedger
    /\ last_saved = EmptyLedger
    /\ save_faults = 0

Init ==
    /\ catalogFile \in {CatalogText([i \in 1..n |-> <<i, "D1">>]) :
                            n \in 1..MaxCatalog}
    /\ catalog = CatalogKeys(catalogFile)
    /\ account_names \in SeqsUpTo(AccountNames, MaxAccounts)
    /\ auth_ok = AccountNames
    /\ target_successes \in 0..MaxTarget
    /\ upscale \in BOOLEAN
    /\ batch_limit = 0
    /\ upload_one_mode = FALSE
    /\ histFile = FileAbsent
    /\ backupFile = FileAbsent
    /\ Fresh

\* ---------------------------------------------------------------- a run
\* The ledger dict that the caller hands to process_uploads.
main_upload_history == load_upload_history(histFile)

\* A fresh process: load_and_filter_data, authenticate_accounts, and the
\* first four assignments of process_uploads.
Main ==
    /\ pc \in {"start", "killed", "killed_in_save", "returned", "raised",
               "aborted"}
    /\ LET loaded == load_and_filter_data(catalogFile, histFile)
           pool == authenticate_accounts(account_names, auth_ok)
       IN  /\ new_items_list' = loaded.queue
           /\ duplicates' = loaded.duplicates
           /\ account_services' = pool.services
           /\ num_accounts' = pool.num
           /\ IF loaded.exc # "none"
              THEN pc' = "aborted" /\ exc' = loaded.exc
              ELSE IF pool.services = << >>
                   THEN pc' = "aborted" /\ exc' = "ValueError"
                   ELSE pc' = "loop" /\ exc' = "none"
    /\ upload_history' = main_upload_history
    /\ run_start' = main_upload_history
    /\ video_index' = 0
    /\ account_index' = 0
    /\ uploaded_count' = 0
    /\ skipped_count' = 0
    /\ exit_code' = 0
    /\ attempts' = << >>
    /\ probe' = NoProbe
    /\ tmp_file' = "none"
    /\ UNCHANGED <<args, tagging, downloader,
                   uploader, files, last_saved, save_faults>>

\* ---------------------------------------------------------------- attempt
\* What the environment answers during one iteration: the step that fails
\* before the upload call, or the answer of initialize_upload.
PreFailures == {"json_error", "download_failed", "file_missing",
                "file_empty", "duration_unavailable", "too_long"}

UploadOutcomes == {"success", "quota", "upload_error"}

Outcomes == PreFailures \cup UploadOutcomes

\* The outcomes whose handler ends in "skipped_count += 1; continue".
OrdinaryFailures == PreFailures \cup {"upload_error"}

Reason(o) ==
    CASE o = "json_error" -> "JSON error"
      [] o = "download_failed" -> "Download failed"
      [] o = "file_missing" -> "File missing"
      [] o = "file_empty" -> "File empty"
      [] o = "duration_unavailable" -> "Duration unavailable"
      [] o = "too_long" -> "Too long for Shorts"
      [] o = "quota" -> "Quota exceeded"
      [] OTHER -> "upload error"

\* The record that the iteration stores for the outcome.
RecordOf(o, acc_name) ==
    IF o \in PreFailures THEN FailedRec(Reason(o))
    ELSE IF o = "success" THEN SuccessRec("vid", acc_name)
    ELSE FailedAccRec(Reason(o), acc_name)

\* while uploaded_count < target_successes and video_index < len(...)
LoopCond ==
    uploaded_count < target_successes /\ video_index < Len(new_items_list)

\* NextIndex without the increment.
NextIndex_Stays == video_index

\* video_index after "video_index += 1".
NextIndex == video_index + 1

\* The position that the round-robin reads in list(account_services.keys()).
Slot == account_index % num_accounts

\* UploadedAfter with "uploaded_count += 1" also in the handler of a failed
\* upload.
UploadedAfter_CountsErrors(o) ==
    IF o \in {"success", "upload_error"}
    THEN uploaded_count + 1 ELSE uploaded_count

\* uploaded_count after the handler of outcome o.
UploadedAfter(o) ==
    IF o = "success" THEN uploaded_count + 1 ELSE uploaded_count

\* SkippedAfter without "skipped_count += 1" in the handlers that come
\* before the upload call.
SkippedAfter_OnlyUploadErrors(o) ==
    IF o = "upload_error" THEN skipped_count + 1 ELSE skipped_count

\* SkippedAfter with "skipped_count += 1" also in the quota handler.
SkippedAfter_CountsQuota(o) ==
    IF o \in OrdinaryFailures \cup {"quota"}
    THEN skipped_count + 1 ELSE skipped_count

\* skipped_count after the handler of outcome o.
SkippedAfter(o) ==
    IF o \in OrdinaryFailures THEN skipped_count + 1 ELSE skipped_count

\* ExitAfter with a quota handler that ends in "continue" instead of "raise".
ExitAfter_QuotaContinues(o) ==
    IF o = "success" /\ uploaded_count + 1 >= target_successes
    THEN "returned"
    ELSE "loop"

\* ExitAfter without the "except Exception" handler of the upload call.
ExitAfter_ErrorEscapes(o) ==
    IF o \in {"quota", "upload_error"} THEN "raised"
    ELSE IF o = "success" /\ uploaded_count + 1 >= target_successes
         THEN "returned"
         ELSE "loop"

\* ExitAfter that returns only when every account of the pool has a
\* success of its own.
ExitAfter_OnePerAccount(o) ==
    IF o = "quota" THEN "raised"
    ELSE IF /\ o = "success"
            /\ uploaded_count + 1 >= target_successes
            /\ \A k \in 1..Len(account_services) :
                   \/ k = Slot + 1
                   \/ \E i \in 1..Len(attempts) :
                          /\ attempts[i].outcome = "success"
                          /\ attempts[i].acc = account_services[k]
         THEN "returned"
         ELSE "loop"

\* How the handler of outcome o leaves the iteration: "raised" (raise),
\* "returned" (return at the target) or "loop" (continue / fall through).
ExitAfter(o) ==
    IF o = "quota" THEN "raised"
    ELSE IF o = "success" /\ uploaded_count + 1 >= target_successes
         THEN "returned"
         ELSE "loop"

\* upload_history[insta_url] = record; save_upload_history(...); then the
\* counter and the exit that belong to the outcome.  With split, the
\* statements that follow the save of a success record are a step of
\* their own (Cleanup).
StoreAndGo(insta_url, acc_name, o, fault, split) ==
    LET dict == Put(upload_history, insta_url, RecordOf(o, acc_name))
        saved == save_upload_history(histFile, backupFile, dict, fault)
    IN  /\ upload_history' = dict
        /\ histFile' = saved.hist
        /\ backupFile' = saved.backup
        /\ last_saved' = IF saved.ok THEN dict ELSE last_saved
        /\ save_faults' = IF saved.ok THEN save_faults ELSE save_faults + 1
        /\ attempts' = Append(attempts, [url |-> insta_url, acc |-> acc_name,
                                         outcome |-> o, saved |-> saved.ok])
        /\ uploaded_count' = IF split /\ o = "success"
                             THEN uploaded_count ELSE UploadedAfter(o)
        /\ skipped_count' = SkippedAfter(o)
        /\ pc' = IF split /\ o = "success" THEN "cleanup" ELSE ExitAfter(o)
        /\ exc' = IF o = "quota" THEN "QuotaExceededError" ELSE "none"

\* An exception that no handler of the loop catches.
Escapes(insta_url, acc_name, error) ==
    /\ pc' = "raised"
    /\ exc' = error
    /\ attempts' = Append(attempts, [url |-> insta_url, acc |-> acc_name,
                                     outcome |-> error, saved |-> FALSE])
    /\ UNCHANGED <<files, upload_history, uploaded_count, skipped_count,
                   last_saved, save_faults>>

\* One iteration of the while loop of process_uploads; faults are the
\* answers of the file system to its save_upload_history call.  With
\* observe, the iteration leaves what it found in probe and tmp_file and
\* stops between the save of a success record and the removal of the
\* temporary file.
IterationWith(faults, observe) ==
    /\ pc = "loop"
    /\ LoopCond
    /\ video_index' = NextIndex
    /\ LET insta_url == new_items_list[video_index + 1][1] IN
       IF Slot >= Len(account_services)
       THEN /\ "none" \in faults
            /\ Escapes(insta_url, "none", "IndexError")
            /\ account_index' = account_index
            /\ probe' = NoProbe
            /\ tmp_file' = "none"
       ELSE LET acc_name == account_services[Slot + 1] IN
            /\ account_index' = account_index + 1
            /\ \E e \in Envs, fault \in faults :
                 LET o == OutcomeOf(e) IN
                 /\ probe' = IF observe THEN e ELSE NoProbe
                 /\ tmp_file' = IF observe THEN TmpFileOf(e) ELSE "none"
                 /\ IF o \in UploadOutcomes /\ upscale
                    THEN /\ fault = "none"
                         /\ Escapes(insta_url, acc_name, "AttributeError")
                    ELSE /\ fault # "none" => save_faults < MaxSaveFaults
                         /\ fault = "replace" => Exists(histFile)
                         /\ StoreAndGo(insta_url, acc_name, o, fault,
                                       observe)
    /\ UNCHANGED <<args, tagging, downloader,
                   uploader, new_items_list, duplicates,
                   account_services, num_accounts, exit_code, run_start>>

\* An iteration on a file system that works.
Iteration == IterationWith({"none"}, FALSE)

\* An iteration whose save_upload_history call returns False.
IterationSaveFails == IterationWith(SaveFaults \ {"none"}, FALSE)

\* An iteration on a file system that works, observed.
IterationObserved == IterationWith({"none"}, TRUE)

\* The statements after the save of a success record.
Cleanup ==
    /\ pc = "cleanup"
    /\ \E remove_ok \in BOOLEAN :
         LET after == AfterRemove(tmp_file, remove_ok) IN
         /\ tmp_file' = after.tmp
         /\ uploaded_count' = IF after.counted
                              THEN UploadedAfter("success")
                              ELSE uploaded_count
         /\ pc' = IF after.counted THEN ExitAfter("success") ELSE "loop"
    /\ UNCHANGED <<args, tagging, downloader,
                   uploader, files, exc, upload_history,
                   new_items_list, duplicates, account_services,
                   num_accounts, video_index, account_index, skipped_count,
                   exit_code, ghosts, probe>>

\* An iteration in which log_error raises: open(ERROR_LOG_FILE, 'a') fails
\* in the handler of a failed candidate, before the record is stored.
IterationLogFails ==
    /\ pc = "loop"
    /\ LoopCond
    /\ Slot < Len(account_services)
    /\ video_index' = NextIndex
    /\ account_index' = account_index + 1
    /\ \E e \in Envs :
         /\ OutcomeOf(e) \in OrdinaryFailures \cup {"quota"}
         /\ OutcomeOf(e) \in UploadOutcomes => ~upscale
         /\ Escapes(new_items_list[video_index + 1][1],
                    account_services[Slot + 1], "OSError")
    /\ UNCHANGED <<args, tagging, downloader,
                   uploader, observed, new_items_list, duplicates,
                   account_services, num_accounts, exit_code, run_start>>

\* The loop condition is false: return uploaded_count, skipped_count.
LoopExit ==
    /\ pc = "loop"
    /\ ~LoopCond
    /\ pc' = "returned"
    /\ UNCHANGED <<args, tagging, downloader,
                   uploader, observed, files, exc, locals, ghosts>>

\* The process is killed between two iterations.
Kill ==
    /\ pc = "loop"
    /\ pc' = "killed"
    /\ UNCHANGED <<args, tagging, downloader,
                   uploader, observed, files, exc, locals, ghosts>>

\* The process is killed inside the save_upload_history call of an
\* iteration.
KillInSave ==
    /\ pc = "loop"
    /\ LoopCond
    /\ Slot < Len(account_services)
    /\ \E point \in KillPoints :
         LET left == SaveKilled(histFile, backupFile, point) IN
         /\ histFile' = left.hist
         /\ backupFile' = left.backup
    /\ pc' = "killed_in_save"
    /\ UNCHANGED <<args, tagging, downloader,
                   uploader, observed, exc, locals, ghosts>>

Next == Main \/ Iteration \/ LoopExit \/ Kill \/ KillInSave

Spec == Init /\ [][Next]_vars

NextSaveFaults == Main \/ Iteration \/ IterationSaveFails \/ LoopExit

SpecSaveFaults == Init /\ [][NextSaveFaults]_vars

\* the runs whose iterations are observed
NextAttempt == Main \/ IterationObserved \/ Cleanup \/ LoopExit

SpecAttempt == Init /\ [][NextAttempt]_vars

\* the runs in which log_error can raise
NextLogFaults == Main \/ Iteration \/ IterationLogFails \/ LoopExit

SpecLogFaults == Init /\ [][NextLogFaults]_vars

\* ================================================================ claims
Range(q) == {q[i] : i \in 1..Len(q)}

\* the number of attempts of the run whose outcome is in S
CountIn(q, S) == Cardinality({i \in 1..Len(q) : q[i].outcome \in S})

Running == pc \in {"loop", "returned", "raised"}

OnDisk == load_upload_history(histFile)

\* ---------------------------------------------------------------- C1
\* C1: when the process is killed, also inside save_upload_history, the
\* ledger that the next run loads still holds every record written by the
\* last save that completed.
C1_KillKeepsSavedRecords ==
    pc \in {"killed", "killed_in_save"} =>
        \A u \in DOMAIN last_saved :
            /\ u \in DOMAIN OnDisk
            /\ OnDisk[u] = last_saved[u]

\* ---------------------------------------------------------------- C3
\* C3: process_uploads returns exactly at the success that brings
\* uploaded_count to target_successes, or when the queue is exhausted;
\* ordinary failures neither stop the run nor count toward the target, and
\* no candidate behind the cursor is touched.
C3_StopsAtTargetOrEnd ==
    Running =>
        /\ video_index = Len(attempts)
        /\ uploaded_count = CountIn(attempts, {"success"})
        /\ skipped_count = CountIn(attempts, OrdinaryFailures)
        /\ uploaded_count <= target_successes
        /\ \A j \in 1..Len(new_items_list) :
               j > video_index =>
                   new_items_list[j][1] \notin DOMAIN upload_history
        /\ (pc = "returned" /\ target_successes > 0) =>
               \/ /\ uploaded_count = target_successes
                  /\ attempts[Len(attempts)].outcome = "success"
               \/ /\ uploaded_count < target_successes
                  /\ video_index = Len(new_items_list)
        /\ (attempts # << >>
              /\ attempts[Len(attempts)].outcome \in OrdinaryFailures) =>
               \/ pc = "loop"
               \/ pc = "returned" /\ video_index = Len(new_items_list)

\* a run that returned at its target after a failure, with a candidate left
C3_Witness ==
    /\ pc = "returned"
    /\ uploaded_count = target_successes
    /\ skipped_count >= 1
    /\ video_index < Len(new_items_list)

\* ---------------------------------------------------------------- C4
\* C4: a quota-exceeded answer for the k-th candidate makes process_uploads
\* raise QuotaExceededError at once: that attempt is the last of the run,
\* the cursor stays at k and uploaded_count counts the successes among
\* attempts 1..k-1.
C4_QuotaStopsRun ==
    Running =>
        /\ \A i \in 1..Len(attempts) :
               attempts[i].outcome = "quota" =>
                   /\ i = Len(attempts)
                   /\ pc = "raised"
                   /\ exc = "QuotaExceededError"
        /\ (pc = "raised" /\ exc = "QuotaExceededError") =>
               /\ attempts # << >>
               /\ attempts[Len(attempts)].outcome = "quota"
               /\ attempts[Len(attempts)].url = new_items_list[video_index][1]
               /\ video_index = Len(attempts)
               /\ uploaded_count =
                      CountIn(SubSeq(attempts, 1, Len(attempts) - 1),
                              {"success"})

\* quota on the second candidate, after a success, with a candidate left
C4_Witness ==
    /\ pc = "raised"
    /\ exc = "QuotaExceededError"
    /\ video_index = 2
    /\ uploaded_count = 1
    /\ video_index < Len(new_items_list)

\* ---------------------------------------------------------------- C5
\* C5: when an attempt ends in quota exceeded, the candidate's record is
\* failed with reason "Quota exceeded", it is in the ledger file when the
\* QuotaExceededError leaves process_uploads, and skipped_count does not
\* count the attempt.
C5_QuotaRecordSaved ==
    (pc = "raised" /\ exc = "QuotaExceededError") =>
        LET last == attempts[Len(attempts)] IN
        /\ last.url \in DOMAIN upload_history
        /\ upload_history[last.url] =
               [status |-> "failed", reason |-> "Quota exceeded",
                account |-> last.acc]
        /\ histFile = FileJson(upload_history)
        /\ skipped_count = Len(attempts) - 1 - uploaded_count

\* quota after an ordinary failure
C5_Witness ==
    /\ pc = "raised"
    /\ exc = "QuotaExceededError"
    /\ skipped_count = 1
    /\ Len(attempts) = 2

\* ---------------------------------------------------------------- C6
\* C6: iteration i (from 0) is assigned the account at position
\* i mod pool-size of the pool, whatever the earlier outcomes.
C6_RoundRobin ==
    \A i \in 1..Len(attempts) :
        attempts[i].acc =
            account_services[((i - 1) % Len(account_services)) + 1]

\* ---------------------------------------------------------------- C7
\* C7: every per-candidate error leaves a failed record with its reason in
\* the ledger, in memory and in the file, adds one to skipped_count, and
\* the loop goes on: it does not end the run.
C7_FailureRecordedAndSkipped ==
    Running =>
        /\ \A i \in 1..Len(attempts) :
               attempts[i].outcome \in OrdinaryFailures =>
                   LET u == attempts[i].url IN
                   /\ u \in DOMAIN upload_history
                   /\ upload_history[u].status = "failed"
                   /\ upload_history[u].reason = Reason(attempts[i].outcome)
                   /\ u \in DOMAIN OnDisk
                   /\ OnDisk[u] = upload_history[u]
        /\ skipped_count = CountIn(attempts, OrdinaryFailures)
        /\ (attempts # << >>
              /\ attempts[Len(attempts)].outcome \in OrdinaryFailures) =>
               /\ pc # "raised"
               /\ pc = "returned" => ~LoopCond

\* two failures of different kinds, the loop still running
C7_Witness ==
    /\ pc = "loop"
    /\ LoopCond
    /\ Len(attempts) = 2
    /\ attempts[1].outcome = "duration_unavailable"
    /\ attempts[2].outcome = "upload_error"
    /\ skipped_count = 2

\* ---------------------------------------------------------------- C8
\* C8: the only exception that leaves the loop of process_uploads is
\* QuotaExceededError.
C8_OnlyQuotaLeavesLoop ==
    pc = "raised" => exc = "QuotaExceededError"

\* ---------------------------------------------------------------- C10
\* C10: when an attempt begins, every earlier attempt of the run has its
\* record in the ledger file, also after a save that returned False.
C10_DiskHasEarlierAttempts ==
    (pc = "loop" /\ LoopCond) =>
        \A i \in 1..Len(attempts) : attempts[i].url \in DOMAIN OnDisk

\* ---------------------------------------------------------------- C9
\* the ledger file holds exactly the records of candidates 1..k
HoldsFirst(k) ==
    /\ histFile.st = "json"
    /\ Cardinality(DOMAIN histFile.data) = k
    /\ DOMAIN histFile.data = {catalog[i] : i \in 1..k}

\* C9: a run that started from an empty ledger and is killed right after
\* the save of attempt K leaves a ledger file with exactly K records, those
\* of candidates 1..K, and the next run starts at candidate K+1.
C9_KillAfterSaveK ==
    /\ [](pc = "killed" /\ run_start = EmptyLedger /\ attempts # << >>
            => HoldsFirst(Len(attempts)))
    /\ [][(pc = "killed" /\ run_start = EmptyLedger /\ attempts # << >>
             /\ pc' # "killed")
            => Keys(new_items_list') =
                   SubSeq(catalog, Len(attempts) + 1, Len(catalog))]_vars

\* killed after the save of attempt 2 of 3
C9_Witness ==
    /\ pc = "killed"
    /\ run_start = EmptyLedger
    /\ Len(attempts) = 2
    /\ Len(catalog) = 3

\* ================================================================ loader
\* SpecLoad: load_and_filter_data and one run of process_uploads, for every
\* catalog order and every ledger file the catalog loader can meet.
SomeRecords == {FailedRec("File missing"), SuccessRec("vid", "a")}

Ledgers == UNION {[S -> SomeRecords] : S \in SUBSET Urls}

\* no catalog file, the text of an empty object, and every text of up to
\* MaxCatalog members, repeated urls included
CatalogFiles ==
    {CatalogAbsent, CatalogText(<< >>)}
        \cup {CatalogText(m) : m \in SeqsUpTo(Urls \X Payloads, MaxCatalog)}

InitLoad ==
    /\ catalogFile \in CatalogFiles
    /\ catalog = CatalogKeys(catalogFile)
    /\ account_names = <<"a">>
    /\ auth_ok = AccountNames
    /\ target_successes = MaxTarget
    /\ upscale = FALSE
    /\ batch_limit = 0
    /\ upload_one_mode = FALSE
    /\ histFile \in {FileAbsent, FileEmpty, FilePartial}
                       \cup {FileJson(h) : h \in Ledgers}
    /\ backupFile = FileAbsent
    /\ Fresh

\* the one process of SpecLoad starts once
MainOnce == pc = "start" /\ Main

NextLoad == MainOnce \/ Iteration \/ LoopExit

SpecLoad == InitLoad /\ [][NextLoad]_vars

\* ---------------------------------------------------------------- C2
\* C2: the queue holds exactly the catalog identifiers without a ledger
\* record, whatever the status of the records; a run over a catalog of
\* which the ledger holds N identifiers attempts at most len(catalog) - N
\* candidates, none of which had a record.
C2_QueueIsCatalogMinusLedger ==
    /\ (pc = "loop" /\ attempts = << >>) => run_start = OnDisk
    /\ pc \in {"loop", "returned", "raised"} =>
           /\ Range(Keys(new_items_list)) = Range(catalog) \ DOMAIN run_start
           /\ Len(new_items_list) =
                  Len(catalog)
                      - Cardinality(DOMAIN run_start \cap Range(catalog))
           /\ Len(attempts) <= Len(new_items_list)
           /\ \A i \in 1..Len(attempts) :
                  attempts[i].url \notin DOMAIN run_start
    /\ pc = "aborted" => Range(catalog) \subseteq DOMAIN OnDisk

\* a run that attempted every identifier the ledger did not hold, the
\* ledger holding a failed record of the catalog
C2_Witness ==
    /\ pc = "returned"
    /\ \E u \in DOMAIN run_start \cap Range(catalog) :
           run_start[u].status = "failed"
    /\ attempts # << >>
    /\ Len(attempts) =
           Len(catalog) - Cardinality(DOMAIN run_start \cap Range(catalog))

\* ---------------------------------------------------------------- C11
\* the position of the first member of the text that is named k
FirstPos(members, k) ==
    CHOOSE i \in 1..Len(members) :
        /\ members[i][1] = k
        /\ \A j \in 1..(i - 1) : members[j][1] # k

\* C11: when the catalog file names an identifier more than once, the queue
\* carries the payload of the first occurrence, and the duplicate count
\* that load_and_filter_data reports is the number of occurrences dropped.
C11_FirstOccurrenceKept ==
    (pc \in {"loop", "returned", "raised"} /\ catalogFile.st = "json") =>
        LET members == catalogFile.members IN
        /\ duplicates = Len(members) - Cardinality(Range(Keys(members)))
        /\ \A i \in 1..Len(new_items_list) :
               new_items_list[i][2] =
                   members[FirstPos(members, new_items_list[i][1])][2]

\* ---------------------------------------------------------------- C12
\* C12: the queue lists the surviving candidates in the order in which the
\* catalog file names them, and the i-th attempt of a run is the attempt of
\* the i-th candidate of the queue.
C12_QueueInCatalogOrder ==
    pc \in {"loop", "returned", "raised"} =>
        LET members == catalogFile.members IN
        /\ \A i, j \in 1..Len(new_items_list) :
               i < j => FirstPos(members, new_items_list[i][1])
                            < FirstPos(members, new_items_list[j][1])
        /\ Len(attempts) <= Len(new_items_list)
        /\ \A i \in 1..Len(attempts) :
               attempts[i].url = new_items_list[i][1]

\* a catalog of three identifiers that is not in ascending order, the
\* middle one with a ledger record, the other two attempted
C12_Witness ==
    /\ pc = "returned"
    /\ Len(catalog) = 3
    /\ catalog[1] > catalog[3]
    /\ catalog[2] \in DOMAIN run_start
    /\ Len(attempts) = 2
    /\ attempts[1].url = catalog[1]
    /\ attempts[2].url = catalog[3]

\* ---------------------------------------------------------------- C13
\* C13: load_and_filter_data raises FileNotFoundError when the catalog file
\* is absent and ValueError when the ledger holds every identifier of the
\* catalog; the run then makes no attempt and leaves the ledger files as
\* they were.
C13_LoaderFailures ==
    /\ [](pc # "start" =>
            /\ catalogFile.st = "absent" =>
                   pc = "aborted" /\ exc = "FileNotFoundError"
            /\ (catalogFile.st = "json"
                  /\ Range(catalog) \subseteq DOMAIN run_start) =>
                   pc = "aborted" /\ exc = "ValueError"
            /\ pc = "aborted" => attempts = << >> /\ new_items_list = << >>)
    /\ [][pc' = "aborted" => files' = files]_vars

\* a catalog of two identifiers, both with a ledger record
C13_Witness ==
    /\ pc = "aborted"
    /\ exc = "ValueError"
    /\ Len(catalog) = 2
    /\ histFile.st = "json"
    /\ Range(catalog) \subseteq DOMAIN OnDisk

\* ================================================================ accounts
\* SpecAccounts: one run for every selection of account names and every set
\* of accounts whose credentials authenticate.
InitAccounts ==
    /\ catalogFile = CatalogText(<<<<1, "D1">>, <<2, "D1">>>>)
    /\ catalog = CatalogKeys(catalogFile)
    /\ account_names \in SeqsUpTo(AccountNames, MaxAccounts)
    /\ auth_ok \in SUBSET AccountNames
    /\ target_successes = MaxTarget
    /\ upscale = FALSE
    /\ batch_limit = 0
    /\ upload_one_mode = FALSE
    /\ histFile = FileAbsent
    /\ backupFile = FileAbsent
    /\ Fresh

SpecAccounts == InitAccounts /\ [][NextLoad]_vars

\* ---------------------------------------------------------------- C14
\* the position at which name n was first selected
NamePos(names, n) ==
    CHOOSE i \in 1..Len(names) :
        names[i] = n /\ \A j \in 1..(i - 1) : names[j] # n

\* C14: the pool holds exactly the selected accounts that authenticated, in
\* the order of their selection; an account that fails is left out and the
\* others are kept; the call fails with ValueError exactly when no selected
\* account authenticated.
C14_PoolOfAuthenticated ==
    (pc # "start" /\ new_items_list # << >>) =>
        /\ Range(account_services) = Range(account_names) \cap auth_ok
        /\ \A i, j \in 1..Len(account_services) :
               i < j => NamePos(account_names, account_services[i])
                            < NamePos(account_names, account_services[j])
        /\ (pc = "aborted" /\ exc = "ValueError")
               <=> Range(account_names) \cap auth_ok = {}
        /\ pc = "aborted" => attempts = << >>

\* the first selected account fails, the second one serves the run
C14_Witness ==
    /\ pc = "loop"
    /\ account_names = <<"b", "a">>
    /\ auth_ok = {"a"}
    /\ account_services = <<"a">>
    /\ Len(attempts) = 1
    /\ attempts[1].acc = "a"

\* ---------------------------------------------------------------- C15
\* a record is well formed: success with a video id and no reason, or
\* failed with a reason and no video id
WellFormed(rec) ==
    /\ rec.status \in {"success", "failed"}
    /\ "youtube_video_id" \in DOMAIN rec <=> rec.status = "success"
    /\ "reason" \in DOMAIN rec <=> rec.status = "failed"

\* C15: every record that process_uploads puts into the ledger, in memory
\* and in the two ledger files, has status success or failed, a video id
\* if and only if it is a success, and a reason if and only if it failed.
C15_RecordsWellFormed ==
    /\ \A u \in DOMAIN upload_history : WellFormed(upload_history[u])
    /\ \A u \in DOMAIN histFile.data : WellFormed(histFile.data[u])
    /\ \A u \in DOMAIN backupFile.data : WellFormed(backupFile.data[u])

\* a ledger file with a success, a failure before the upload call and a
\* failure of the upload call
C15_Witness ==
    /\ pc \in {"returned", "raised"}
    /\ \E u \in DOMAIN OnDisk : OnDisk[u].status = "success"
    /\ \E u \in DOMAIN OnDisk :
           OnDisk[u].status = "failed" /\ "account" \notin DOMAIN OnDisk[u]
    /\ \E u \in DOMAIN OnDisk :
           OnDisk[u].status = "failed" /\ "account" \in DOMAIN OnDisk[u]

\* ---------------------------------------------------------------- C16
\* the urls for which the run has stored a record
Written == {attempts[i].url : i \in {j \in 1..Len(attempts) :
                                        attempts[j].outcome \in Outcomes}}

\* C16: a run keeps every record that the ledger held when it started, in
\* memory and in the file, writes only records of identifiers that had
\* none, each of them once, and the ledger holds nothing else.
C16_RecordsWrittenOnce ==
    Running =>
        /\ \A u \in DOMAIN run_start :
               /\ u \in DOMAIN upload_history
               /\ upload_history[u] = run_start[u]
               /\ u \in DOMAIN OnDisk
               /\ OnDisk[u] = run_start[u]
        /\ \A i \in 1..Len(attempts) : attempts[i].url \notin DOMAIN run_start
        /\ \A i, j \in 1..Len(attempts) :
               i # j => attempts[i].url # attempts[j].url
        /\ DOMAIN upload_history = DOMAIN run_start \cup Written
        /\ DOMAIN upload_history \subseteq Range(catalog)

\* a second run that has written a record next to those of the first
C16_Witness ==
    /\ pc = "loop"
    /\ run_start # EmptyLedger
    /\ Written # {}
    /\ DOMAIN OnDisk = DOMAIN run_start \cup Written

\* ---------------------------------------------------------------- C17
\* C17: within a run the cursor moves only forward, by one per iteration;
\* iteration i attempts queue entry i, so no identifier is attempted twice
\* and a failed identifier is not attempted again.
C17_CursorOnlyAdvances ==
    /\ [](Running =>
            /\ video_index = Len(attempts)
            /\ video_index <= Len(new_items_list)
            /\ \A i \in 1..Len(attempts) :
                   attempts[i].url = new_items_list[i][1]
            /\ \A i, j \in 1..Len(attempts) :
                   i # j => attempts[i].url # attempts[j].url)
    /\ [][pc = "loop" =>
            IF attempts' # attempts
            THEN /\ video_index' = video_index + 1
                 /\ Len(attempts') = Len(attempts) + 1
            ELSE video_index' = video_index]_vars

\* a failed attempt followed by the attempt of the next candidate
C17_Witness ==
    /\ pc = "loop"
    /\ video_index = 2
    /\ Len(attempts) = 2
    /\ attempts[1].outcome \in OrdinaryFailures
    /\ attempts[1].url = new_items_list[1][1]
    /\ attempts[2].url = new_items_list[2][1]

\* ================================================================ src/main.py
\* SpecMain: the single-account program of src/main.py, which has its own
\* loop over the new items.  It shares the ledger files and the catalog
\* file with process_uploads; new_items_list holds new_items.items().
MainOutcomes == {"json_error", "download_failed", "file_missing",
                 "file_empty"} \cup UploadOutcomes

\* the "reason" that src/main.py stores for a failed outcome
MainReason(o) ==
    IF o = "download_failed" THEN "Download failed: error" ELSE Reason(o)

\* the record that src/main.py stores for the outcome
MainRecordOf(o) ==
    IF o = "success"
    THEN [status |-> "success", youtube_video_id |-> "vid"]
    ELSE FailedRec(MainReason(o))

\* effective_batch = 1 if upload_one_mode else batch_limit
effective_batch == IF upload_one_mode THEN 1 ELSE batch_limit

\* main_exit_code that exits with 0 whatever the counts.
main_exit_code_AlwaysZero(uploaded, total_new) == 0

\* The exit status of the statements after the loop: sys.exit(1) when
\* nothing was uploaded although new items existed, otherwise sys.exit(0)
\* or the normal end of main.
main_exit_code(uploaded, total_new) ==
    IF uploaded = 0 /\ total_new > 0 THEN 1 ELSE 0

InitMain ==
    /\ catalogFile \in {CatalogAbsent}
           \cup {CatalogText([i \in 1..n |-> <<i, "D1">>]) :
                     n \in 0..MaxCatalog}
    /\ catalog = CatalogKeys(catalogFile)
    /\ account_names = <<"a">>
    /\ auth_ok = AccountNames
    /\ target_successes = 0
    /\ upscale = FALSE
    /\ batch_limit \in 0..MaxBatch
    /\ upload_one_mode \in BOOLEAN
    /\ histFile = FileAbsent
    /\ backupFile = FileAbsent
    /\ Fresh

\* A fresh process of src/main.py, up to the head of its for loop.
main_start ==
    /\ pc \in {"start", "exited"}
    /\ upload_history' = load_upload_history(histFile)
    /\ run_start' = load_upload_history(histFile)
    /\ video_index' = 0
    /\ uploaded_count' = 0
    /\ skipped_count' = 0
    /\ attempts' = << >>
    /\ exc' = "none"
    /\ IF catalogFile.st = "absent"
       THEN /\ pc' = "exited"
            /\ exit_code' = 1
            /\ new_items_list' = << >>
            /\ duplicates' = 0
       ELSE LET insta_data == json_load(catalogFile.members) IN
            /\ pc' = "for"
            /\ exit_code' = 0
            /\ new_items_list' =
                   FilterNew(insta_data, load_upload_history(histFile))
            /\ duplicates' = DedupeLoop(insta_data, {}, << >>, 0).duplicates
    /\ UNCHANGED <<args, tagging, downloader,
                   uploader, observed, files, account_services, num_accounts,
                   account_index, last_saved, save_faults>>

\* One iteration of the for loop of src/main.py, together with the
\* statements after the loop when the iteration breaks out of it.
main_iteration ==
    /\ pc = "for"
    /\ video_index < Len(new_items_list)
    /\ video_index' = video_index + 1
    /\ LET insta_url == new_items_list[video_index + 1][1]
           total_new == Len(new_items_list)
       IN  IF video_index + 1 > effective_batch
           THEN /\ pc' = "exited"
                /\ exit_code' = main_exit_code(uploaded_count, total_new)
                /\ UNCHANGED <<files, upload_history, uploaded_count,
                               skipped_count, attempts, last_saved>>
           ELSE \E o \in MainOutcomes :
                  LET dict == Put(upload_history, insta_url, MainRecordOf(o))
                      saved == save_upload_history(histFile, backupFile,
                                                   dict, "none")
                  IN  /\ upload_history' = dict
                      /\ histFile' = saved.hist
                      /\ backupFile' = saved.backup
                      /\ last_saved' = dict
                      /\ attempts' = Append(attempts,
                             [url |-> insta_url, acc |-> "none",
                              outcome |-> o, saved |-> TRUE])
                      /\ uploaded_count' = UploadedAfter(o)
                      /\ skipped_count' = SkippedAfter(o)
                      /\ IF o = "quota"
                         THEN pc' = "exited" /\ exit_code' = 1
                         ELSE IF o = "success" /\ upload_one_mode
                         THEN /\ pc' = "exited"
                              /\ exit_code' =
                                     main_exit_code(uploaded_count + 1,
                                                    total_new)
                         ELSE pc' = "for" /\ exit_code' = exit_code
    /\ UNCHANGED <<args, tagging, downloader,
                   uploader, observed, exc, new_items_list, duplicates,
                   account_services, num_accounts, account_index, run_start,
                   save_faults>>

\* The for loop has no item left: the statements after the loop.
main_loop_end ==
    /\ pc = "for"
    /\ video_index = Len(new_items_list)
    /\ pc' = "exited"
    /\ exit_code' = main_exit_code(uploaded_count, Len(new_items_list))
    /\ UNCHANGED <<args, tagging, downloader,
                   uploader, observed, files, exc, upload_history,
                   new_items_list, duplicates, account_services,
                   num_accounts, video_index,
                   account_index, uploaded_count, skipped_count, ghosts>>

NextMain == main_start \/ main_iteration \/ main_loop_end

SpecMain == InitMain /\ [][NextMain]_vars

\* ---------------------------------------------------------------- C18
\* the run of src/main.py ended at a quota-exceeded answer
EndedByQuota ==
    attempts # << >> /\ attempts[Len(attempts)].outcome = "quota"

max_retries == 3

\* The HTTP statuses that the model lets the platform answer with.
Statuses == {400, 403, 500, 502, 503, 504}

\* quota: "quotaExceeded" in err._get_reason()
Answers ==
    {[kind |-> "response", id |-> TRUE, status |-> 200, quota |-> FALSE],
     [kind |-> "response", id |-> FALSE, status |-> 200, quota |-> FALSE],
     [kind |-> "Exception", id |-> FALSE, status |-> 0, quota |-> FALSE]}
        \cup {[kind |-> "HttpError", id |-> FALSE, status |-> st, quota |-> q] :
                  st \in Statuses, q \in BOOLEAN}

\* HandlerOf with a quota answer that is retried like a server error.
HandlerOf_QuotaRetried(ans) ==
    IF ans.kind = "response"
    THEN IF ans.id THEN "return" ELSE "retry"
    ELSE IF ans.kind = "HttpError"
         THEN IF ans.status = 403 /\ ans.quota THEN "retry"
              ELSE IF ans.status = 500 \/ ans.status = 503 THEN "retry"
              ELSE "raise"
         ELSE "retry"

\* HandlerOf that returns whatever response.get('id') gave.
HandlerOf_NoIdReturns(ans) ==
    IF ans.kind = "response"
    THEN "return"
    ELSE IF ans.kind = "HttpError"
         THEN IF ans.status = 403 /\ ans.quota THEN "quota"
              ELSE IF ans.status = 500 \/ ans.status = 503 THEN "retry"
              ELSE "raise"
         ELSE "retry"

\* The branch of the try statement that an answer of execute() takes:
\* "return" (return video_id), "quota" (raise QuotaExceededError), "retry"
\* (sleep and continue while attempts are left, raise at the last one) or
\* "raise" (re-raise at once).
HandlerOf(ans) ==
    IF ans.kind = "response"
    THEN IF ans.id THEN "return" ELSE "retry"
    ELSE IF ans.kind = "HttpError"
         THEN IF ans.status = 403 /\ ans.quota THEN "quota"
              ELSE IF ans.status = 500 \/ ans.status = 503 THEN "retry"
              ELSE "raise"
         ELSE "retry"

\* The exception that an answer stands for.
ErrorOf(ans) ==
    IF ans.kind = "response" THEN "ValueError" ELSE ans.kind

\* RetriesLeft that never sees the last attempt.
RetriesLeft_Always(n) == TRUE

\* "if attempt < max_retries - 1": another attempt follows attempt n
RetriesLeft(n) == n < max_retries - 1

\* initialize_upload up to the head of its retry loop.
initialize_upload_begin ==
    /\ pc = "start"
    /\ pc' = "execute"
    /\ attempt' = 0
    /\ retry_delay' = 1
    /\ UNCHANGED <<args, tagging, downloader,
                   files, exc, locals, ghosts, observed,
                   upload_result, calls, sleeps>>

\* One iteration of "for attempt in range(max_retries)".
initialize_upload_execute ==
    /\ pc = "execute"
    /\ attempt < max_retries
    /\ \E ans \in Answers :
         LET h == HandlerOf(ans) IN
         /\ calls' = Append(calls, ans)
         /\ IF h = "retry" /\ RetriesLeft(attempt)
            THEN /\ sleeps' = Append(sleeps, retry_delay)
                 /\ retry_delay' = retry_delay * 2
                 /\ attempt' = attempt + 1
                 /\ pc' = "execute"
                 /\ upload_result' = upload_result
            ELSE /\ pc' = "upload_done"
                 /\ upload_result' =
                        IF h = "return" THEN "video_id"
                        ELSE IF h = "quota" THEN "QuotaExceededError"
                        ELSE ErrorOf(ans)
                 /\ UNCHANGED <<sleeps, retry_delay, attempt>>
    /\ UNCHANGED <<args, tagging, downloader,
                   files, exc, locals, ghosts, observed>>

InitUpload ==
    /\ catalogFile = CatalogText(<<<<1, "D1">>>>)
    /\ catalog = CatalogKeys(catalogFile)
    /\ account_names = <<"a">>
    /\ auth_ok = AccountNames
    /\ target_successes = 1
    /\ upscale = FALSE
    /\ batch_limit = 0
    /\ upload_one_mode = FALSE
    /\ histFile = FileAbsent
    /\ backupFile = FileAbsent
    /\ Fresh

NextUpload == initialize_upload_begin \/ initialize_upload_execute

SpecUpload == InitUpload /\ [][NextUpload]_vars

\* ---------------------------------------------------------------- C19
IsQuotaAnswer(ans) ==
    ans.kind = "HttpError" /\ ans.status = 403 /\ ans.quota

\* C19: the first HTTP 403 quota answer ends initialize_upload with
\* QuotaExceededError: no further upload call follows it, and the function
\* neither retries it nor ends with another result.
C19_QuotaRaisedAtOnce ==
    /\ \A i \in 1..Len(calls) :
           IsQuotaAnswer(calls[i]) =>
               /\ i = Len(calls)
               /\ pc = "upload_done"
               /\ upload_result = "QuotaExceededError"
    /\ upload_result = "QuotaExceededError" =>
           calls # << >> /\ IsQuotaAnswer(calls[Len(calls)])

\* a quota answer to the second call, after a server error was retried
C19_Witness ==
    /\ pc = "upload_done"
    /\ Len(calls) = 2
    /\ calls[1].status = 500
    /\ IsQuotaAnswer(calls[2])
    /\ upload_result = "QuotaExceededError"
    /\ sleeps = <<1>>

\* ---------------------------------------------------------------- C20
Is5xx(ans) == ans.kind = "HttpError" /\ ans.status >= 500

\* C20: every HTTP 5xx answer is retried while fewer than 3 calls were
\* made, with waits of 1s and then 2s, and initialize_upload raises the
\* server error only after the third call failed.
C20_RetriesEvery5xx ==
    /\ Len(calls) <= 3
    /\ sleeps = SubSeq(<<1, 2>>, 1, Len(sleeps))
    /\ \A i \in 1..Len(calls) :
           (Is5xx(calls[i]) /\ i < 3) =>
               /\ Len(calls) > i \/ pc = "execute"
               /\ Len(sleeps) >= i
    /\ (pc = "upload_done" /\ calls # << >> /\ Is5xx(calls[Len(calls)])) =>
           Len(calls) = 3

\* ---------------------------------------------------------------- C21
\* C21: in --upload-one mode src/main.py goes on past failed candidates
\* until one upload has succeeded or no new candidate is left, and makes no
\* second successful upload.
C21_UploadOneUntilSuccess ==
    (pc = "exited" /\ upload_one_mode /\ catalogFile.st = "json"
       /\ ~EndedByQuota) =>
        /\ uploaded_count <= 1
        /\ uploaded_count = 1 \/ Len(attempts) = Len(new_items_list)

\* ---------------------------------------------------------------- C22
\* C22: every record that a run of process_uploads writes names the
\* account that the round-robin assigned to the attempt, for successes and
\* for every kind of failure.
C22_RecordsNameAccount ==
    Running =>
        \A i \in 1..Len(attempts) :
            attempts[i].outcome \in Outcomes =>
                LET rec == upload_history[attempts[i].url] IN
                /\ "account" \in DOMAIN rec
                /\ rec.account = attempts[i].acc

\* ---------------------------------------------------------------- C24
\* C24: with upscaling enabled no failure of the upscale step ends the
\* attempt or the loop: every attempt that passed the duration check
\* reaches the upload call.
C24_UpscaleFailureNotFatal ==
    upscale =>
        /\ exc # "AttributeError"
        /\ \A i \in 1..Len(attempts) :
               attempts[i].outcome # "AttributeError"

\* ---------------------------------------------------------------- C27
\* the successes of the run that went to account a
SuccessesOf(a) ==
    Cardinality({i \in 1..Len(attempts) :
                     attempts[i].outcome = "success" /\ attempts[i].acc = a})

\* C27: process_uploads counts successes globally: uploaded_count is the
\* sum of the successes of all accounts, and the run returns as soon as
\* that sum reaches target_successes, however the successes are spread
\* over the accounts.
C27_GlobalCountOnly ==
    Running =>
        /\ \A i \in 1..Len(attempts) :
               attempts[i].outcome = "success" =>
                   attempts[i].acc \in Range(account_services)
        /\ \A a \in Range(account_services) : SuccessesOf(a) <= uploaded_count
        /\ uploaded_count = CountIn(attempts, {"success"})
        /\ (target_successes > 0
              /\ CountIn(attempts, {"success"}) >= target_successes) =>
               pc = "returned"

\* one-per-account mode with two accounts: the target of 2 is reached with
\* both successes on one account and none on the other
C27_Witness ==
    /\ pc = "returned"
    /\ Len(account_services) = 2
    /\ num_accounts = 2
    /\ target_successes = 2
    /\ uploaded_count = 2
    /\ SuccessesOf(account_services[1]) = 2
    /\ SuccessesOf(account_services[2]) = 0

\* ---------------------------------------------------------------- C28
\* C28: a call of save_upload_history that returns False leaves the ledger
\* file with the content it had before the call.
C28_FailedSaveKeepsFile ==
    [][save_faults' = save_faults + 1 => histFile' = histFile]_vars

\* ---------------------------------------------------------------- C30
\* C30: when appending to the error log fails while a failed candidate is
\* handled, the failed record of the candidate is still stored in the
\* ledger and saved, and the loop goes on: no attempt ends with the
\* OSError of log_error as the exception of the run, and every attempt in
\* which log_error raised has its failed record in the ledger file.
C30_LogFailureKeepsRecord ==
    /\ exc # "OSError"
    /\ \A i \in 1..Len(attempts) :
         attempts[i].outcome = "OSError" =>
            /\ attempts[i].url \in DOMAIN upload_history
            /\ upload_history[attempts[i].url].status = "failed"
            /\ attempts[i].url \in DOMAIN OnDisk

\* ---------------------------------------------------------------- C23
\* the last attempt of the run, which probe describes
LastAttempt == attempts[Len(attempts)]

\* initialize_upload was called in attempt a
UploadCalled(a) == a.outcome \in UploadOutcomes

\* the candidate that probe describes is not eligible
Ineligible ==
    \/ ~probe.remote /\ probe.file \in {"missing", "empty"}
    \/ probe.remote /\ probe.file # "ok" /\ ~probe.download_ok
    \/ probe.duration = -1
    \/ probe.duration > ShortsLimit

\* C23: process_uploads never calls the upload collaborator for a candidate
\* whose local media file is missing or empty, whose duration probe
\* answered -1 or whose duration is greater than 60 seconds: such a
\* candidate gets a failed record instead.  A candidate of exactly 60
\* seconds is eligible: the upload collaborator is called for it (unless
\* the upscale step raised before the call).
C23_IneligibleNeverUploaded ==
    (probe # NoProbe /\ probe.json_ok) =>
        /\ Ineligible =>
              /\ ~UploadCalled(LastAttempt)
              /\ LastAttempt.outcome \in PreFailures
              /\ upload_history[LastAttempt.url].status = "failed"
              /\ OnDisk = upload_history
        /\ (~Ineligible /\ ~upscale) => UploadCalled(LastAttempt)
        /\ (~probe.remote /\ probe.file = "missing")
              => LastAttempt.outcome = "file_missing"
        /\ (~probe.remote /\ probe.file = "empty")
              => LastAttempt.outcome = "file_empty"
        /\ (FileReady(probe) /\ probe.duration = -1)
              => LastAttempt.outcome = "duration_unavailable"
        /\ probe.duration > ShortsLimit => LastAttempt.outcome = "too_long"

\* a candidate of exactly 60 seconds was uploaded, after one that was one
\* second longer was refused
C23_Witness ==
    /\ probe.duration = ShortsLimit
    /\ LastAttempt.outcome = "success"
    /\ Len(attempts) = 2
    /\ attempts[1].outcome = "too_long"
    /\ upload_history[attempts[1].url].status = "failed"

\* ---------------------------------------------------------------- C25
\* the success record of the last attempt is in the ledger and in its file
SuccessSaved ==
    /\ LastAttempt.outcome = "success"
    /\ LastAttempt.url \in DOMAIN OnDisk
    /\ OnDisk[LastAttempt.url] = RecordOf("success", LastAttempt.acc)
    /\ upload_history[LastAttempt.url] =
          RecordOf("success", LastAttempt.acc)

\* C25: after a successful upload the temporary file of the attempt is
\* deleted, and only after the success record has been saved to the
\* ledger: the file is deleted only by the statements that follow the save
\* of a success record.  Whether or not the deletion succeeds, those
\* statements leave the ledger and its files as they are, the record stays
\* success and the success counter is incremented.
C25_TempFileDeletedAfterSave ==
    [][/\ (tmp_file # "deleted" /\ tmp_file' = "deleted")
            => (pc = "cleanup" /\ tmp_file = "present" /\ SuccessSaved)
       /\ pc = "cleanup" =>
            /\ SuccessSaved
            /\ SuccessSaved'
            /\ tmp_file' \in {tmp_file, "deleted"}
            /\ uploaded_count' = uploaded_count + 1
            /\ skipped_count' = skipped_count
            /\ <<upload_history, files>>' = <<upload_history, files>>
            /\ pc' \in {"loop", "returned"}]_vars

\* the deletion of a downloaded file failed: the file is still there, the
\* record is success and the success is counted
C25_Witness ==
    /\ pc \in {"loop", "returned"}
    /\ Len(attempts) > 0
    /\ SuccessSaved
    /\ tmp_file = "present"
    /\ probe.remote
    /\ uploaded_count = CountIn(attempts, {"success"})
    /\ uploaded_count > 0

\* the downloaded file of a successful attempt was deleted
C25_WitnessDeleted ==
    /\ Len(attempts) > 0
    /\ SuccessSaved
    /\ tmp_file = "deleted"
    /\ uploaded_count > 0

\* ---------------------------------------------------------------- tags
\* the longest caption, in words
MaxCaption == 3

\* the words of a caption: hashtags in several spellings, and other text
Words == {"#Cat", "#cat", "#shorts", "text"}

\* the words that re.findall(r'#\w+', caption) finds
IsHashtag(w) == w \in {"#Cat", "#cat", "#shorts"}

\* str.lower()
lower(w) ==
    CASE w = "#Cat" -> "#cat"
      [] w = "#Shorts" -> "#shorts"
      [] w = "#YouTubeShorts" -> "#youtubeshorts"
      [] OTHER -> w

\* the captions of at most n words
CaptionsUpTo(n) == {<< >>} \cup SeqsUpTo(Words, n)

\* utils.extract_tags_from_caption: the hashtags in their order, lowered
extract_tags_from_caption(c) ==
    LET hashtags == SelectSeq(c, IsHashtag)
    IN  [i \in 1..Len(hashtags) |-> lower(hashtags[i])]

\* options.tags = tags + ['#Shorts', '#YouTubeShorts']
OptionsTags(c) ==
    extract_tags_from_caption(c) \o <<"#Shorts", "#YouTubeShorts">>

\* if 'shorts' not in [tag.lower() for tag in options.tags]:
\*     options.tags.append('#Shorts')
BodyTags(t) ==
    IF \A i \in 1..Len(t) : lower(t[i]) # "shorts"
    THEN Append(t, "#Shorts")
    ELSE t

\* process_uploads builds options.tags from the description.
process_uploads_tags ==
    /\ pc = "start"
    /\ \E c \in CaptionsUpTo(MaxCaption) :
         /\ caption' = c
         /\ tags' = OptionsTags(c)
    /\ pc' = "options"
    /\ UNCHANGED <<args, files, exc, locals, ghosts, uploader, observed,
                   downloader>>

\* initialize_upload puts options.tags in the request body.
initialize_upload_body ==
    /\ pc = "options"
    /\ tags' = BodyTags(tags)
    /\ pc' = "body"
    /\ UNCHANGED <<args, files, exc, locals, ghosts, uploader, observed,
                   downloader, caption>>

NextTags == process_uploads_tags \/ initialize_upload_body

SpecTags == InitUpload /\ [][NextTags]_vars

\* ---------------------------------------------------------------- C26
\* C26: the tag list in the upload request body contains no tag twice,
\* compared without regard to case, whatever the caption is.
C26_NoTagTwice ==
    pc = "body" =>
        \A i, j \in 1..Len(tags) :
            i # j => lower(tags[i]) # lower(tags[j])

\* ---------------------------------------------------------------- download
\* max_retries of download_video
download_max_retries == 3

\* What one pass through the try block of download_video meets:
\*   "ok"                    the file is written and is not empty
\*   "empty"                 the file is written and is empty (ValueError)
\*   "Timeout", "ConnectionError"
\*                           session.get raises
\*   "HTTPError"             response.raise_for_status() raises
\*   "ChunkedEncodingError"  iter_content raises after chunks were written
\*   "OSError"               f.write raises after chunks were written
\* One session.get is one attempt, whatever the mounted adapter does
\* inside it.
DownloadAnswers ==
    {"ok", "empty", "Timeout", "ConnectionError", "HTTPError",
     "ChunkedEncodingError", "OSError"}

\* the subclasses of requests.RequestException among the answers
RequestExceptions ==
    {"Timeout", "ConnectionError", "HTTPError", "ChunkedEncodingError"}

\* Retried that takes every failure for a request error.
Retried_EveryFailure(ans) == ans # "ok"

\* "except requests.RequestException": the failures that are retried
Retried(ans) == ans \in RequestExceptions

\* the file at local_path when the try block is left
FileAfterTry(lp, ans) ==
    CASE ans = "ok" -> "ok"
      [] ans = "empty" -> "empty"
      [] ans \in {"ChunkedEncodingError", "OSError"} -> "partial"
      [] OTHER -> lp

\* if os.path.exists(local_path): os.remove(local_path)
RemoveIfExists(lp) == "absent"

\* wait_time = 2 ** attempt
wait_time(n) == 2 ^ n

\* process_uploads calls download_video when the file is missing or empty.
download_video_begin ==
    /\ pc = "start"
    /\ local_path' \in {"absent", "empty"}
    /\ download_result' = "none"
    /\ attempt' = 0
    /\ pc' = "get"
    /\ UNCHANGED <<args, files, exc, locals, ghosts, observed, tagging,
                   retry_delay, upload_result, calls, sleeps>>

\* One iteration of "for attempt in range(max_retries)".
download_video_attempt ==
    /\ pc = "get"
    /\ attempt < download_max_retries
    /\ \E ans \in DownloadAnswers :
         LET written == FileAfterTry(local_path, ans) IN
         /\ calls' = Append(calls, ans)
         /\ IF ans = "ok"
            THEN /\ local_path' = written
                 /\ download_result' = "returned"
                 /\ pc' = "download_done"
                 /\ UNCHANGED <<sleeps, attempt>>
            ELSE /\ local_path' = RemoveIfExists(written)
                 /\ IF Retried(ans) /\ attempt < download_max_retries - 1
                    THEN /\ sleeps' = Append(sleeps, wait_time(attempt))
                         /\ attempt' = attempt + 1
                         /\ pc' = "get"
                         /\ download_result' = download_result
                    ELSE /\ download_result' = "raised"
                         /\ pc' = "download_done"
                         /\ UNCHANGED <<sleeps, attempt>>
    /\ UNCHANGED <<args, files, exc, locals, ghosts, observed, tagging,
                   retry_delay, upload_result>>

NextDownload == download_video_begin \/ download_video_attempt

SpecDownload == InitUpload /\ [][NextDownload]_vars

\* ---------------------------------------------------------------- C29
\* C29: download_video makes at most 3 attempts; the only failures after
\* which it tries again are request errors, every one of them until the
\* third attempt; it waits 1s after the first and 2s after the second
\* failed attempt and never after the last one; and whenever it raises,
\* no file is left at local_path.
C29_BoundedDownloadRetries ==
    pc \in {"get", "download_done"} =>
        /\ Len(calls) <= download_max_retries
        /\ \A i \in 1..Len(calls) - 1 : calls[i] \in RequestExceptions
        /\ Len(sleeps) <= 2
        /\ \A i \in 1..Len(sleeps) : sleeps[i] = 2 ^ (i - 1)
        /\ pc = "get" => Len(sleeps) = Len(calls) /\ Len(calls) < 3
        /\ pc = "download_done" =>
              /\ Len(calls) > 0
              /\ Len(sleeps) = Len(calls) - 1
              /\ calls[Len(calls)] \in RequestExceptions => Len(calls) = 3
              /\ download_result = "raised" <=> calls[Len(calls)] # "ok"
              /\ download_result = "raised" => local_path = "absent"
              /\ download_result = "returned" => local_path = "ok"

\* three attempts, the second one broken off in the middle of the body, and
\* no file left
C29_Witness ==
    /\ pc = "download_done"
    /\ download_result = "raised"
    /\ calls = <<"Timeout", "ChunkedEncodingError", "HTTPError">>
    /\ sleeps = <<1, 2>>
    /\ local_path = "absent"

\* ---------------------------------------------------------------- selection
\* the orders in which os.listdir can list the subfolders
Listings ==
    {<< >>} \cup
    {q \in SeqsUpTo(AccountNames, MaxAccounts) :
        \A i, j \in 1..Len(q) : i # j => q[i] # q[j]}

CredsDirs ==
    {NoCreds} \cup
    {[exists |-> TRUE, subdirs |-> q, secrets |-> sec] :
        q \in Listings, sec \in SUBSET AccountNames}

\* the values of the accounts option: absent, or names that may repeat
AccountsArgs == {<< >>} \cup SeqsUpTo(AccountNames, MaxAccounts)

\* A call of get_account_names, for any creds directory and options.
get_account_names_call ==
    /\ pc = "start"
    /\ \E creds \in CredsDirs, arg \in AccountsArgs, all \in BOOLEAN :
         LET r == get_account_names(creds, arg, all) IN
         /\ creds_dir' = creds
         /\ accounts_arg' = arg
         /\ all_accounts' = all
         /\ account_names' = r.names
         /\ exc' = r.exc
         /\ pc' = IF r.exc = "none" THEN "names" ELSE "aborted"
    /\ UNCHANGED <<options, files, locals, ghosts, uploader, observed,
                   tagging, downloader>>

\* A call of authenticate_accounts with the names that were selected.
authenticate_accounts_call ==
    /\ pc = "names"
    /\ LET pool == authenticate_accounts(account_names, auth_ok) IN
         /\ account_services' = pool.services
         /\ num_accounts' = pool.num
         /\ pc' = IF pool.services = << >> THEN "aborted"
                  ELSE "authenticated"
         /\ exc' = IF pool.services = << >> THEN "ValueError" ELSE "none"
    /\ UNCHANGED <<args, files, ghosts, uploader, observed, tagging,
                   downloader, upload_history, new_items_list, duplicates,
                   video_index, account_index, uploaded_count,
                   skipped_count, exit_code>>

InitNames ==
    /\ catalogFile = CatalogText(<<<<1, "D1">>>>)
    /\ catalog = CatalogKeys(catalogFile)
    /\ account_names = << >>
    /\ auth_ok \in SUBSET AccountNames
    /\ target_successes = 1
    /\ upscale = FALSE
    /\ batch_limit = 0
    /\ upload_one_mode = FALSE
    /\ histFile = FileAbsent
    /\ backupFile = FileAbsent
    /\ Fresh

NextNames == get_account_names_call \/ authenticate_accounts_call

SpecNames == InitNames /\ [][NextNames]_vars

\* ---------------------------------------------------------------- C31
\* the subfolder of name n exists and holds client_secrets.json
ValidAccount(n) == n \in Range(creds_dir.subdirs) \cap creds_dir.secrets

\* some name that the selection looks at is valid
SomeValid ==
    /\ creds_dir.exists
    /\ creds_dir.subdirs # << >>
    /\ IF accounts_arg # << >>
       THEN \E i \in 1..Len(accounts_arg) : ValidAccount(accounts_arg[i])
       ELSE \E i \in 1..Len(creds_dir.subdirs) :
                ValidAccount(creds_dir.subdirs[i])

\* C31: get_account_names returns only names whose subfolder exists and
\* holds client_secrets.json: the valid names of the explicit list in the
\* order given, or with the all-accounts option the valid subfolders in
\* the order listed, or with neither exactly the first valid subfolder; it
\* raises ValueError and never returns an empty list.
C31_SelectsValidAccounts ==
    /\ pc \in {"names", "authenticated"} =>
         /\ account_names # << >>
         /\ SomeValid
         /\ \A i \in 1..Len(account_names) : ValidAccount(account_names[i])
         /\ accounts_arg # << >> =>
               account_names = SelectSeq(accounts_arg, ValidAccount)
         /\ (accounts_arg = << >> /\ all_accounts) =>
               account_names = SelectSeq(creds_dir.subdirs, ValidAccount)
         /\ (accounts_arg = << >> /\ ~all_accounts) =>
               /\ Len(account_names) = 1
               /\ \E k \in 1..Len(creds_dir.subdirs) :
                    /\ creds_dir.subdirs[k] = account_names[1]
                    /\ \A j \in 1..k - 1 :
                          ~ValidAccount(creds_dir.subdirs[j])
    /\ (pc = "aborted" /\ account_names = << >>) =>
         exc = "ValueError" /\ ~SomeValid

\* with neither option, the second of two subfolders is selected because
\* the first one has no client_secrets.json
C31_Witness ==
    /\ pc = "names"
    /\ accounts_arg = << >>
    /\ ~all_accounts
    /\ creds_dir.subdirs = <<"a", "b">>
    /\ creds_dir.secrets = {"b"}
    /\ account_names = <<"b">>

\* ---------------------------------------------------------------- C33
\* C33: for every list of names that get_account_names accepts, the
\* num_accounts that authenticate_accounts returns is the number of
\* entries of the pool it returns.
C33_CountIsPoolSize ==
    pc = "authenticated" => num_accounts = Len(account_services)

\* ---------------------------------------------------------------- C34
\* what initialize_upload can raise
UploadErrors ==
    {"QuotaExceededError", "HttpError", "Exception", "ValueError"}

\* C34: initialize_upload makes at most 3 upload calls and ends either by
\* returning the video id of the response of its last call or by raising:
\* the loop is never left at its end with nothing returned, and what is
\* returned is never the missing id of a response.
C34_ReturnsIdOrRaises ==
    /\ Len(calls) <= max_retries
    /\ pc = "execute" => attempt < max_retries /\ Len(calls) = attempt
    /\ pc = "upload_done" =>
         /\ calls # << >>
         /\ upload_result \in {"video_id"} \cup UploadErrors
         /\ upload_result = "video_id" <=>
               /\ calls[Len(calls)].kind = "response"
               /\ calls[Len(calls)].id

\* the third call is answered without a video id as well: ValueError is
\* raised
C34_Witness ==
    /\ pc = "upload_done"
    /\ Len(calls) = max_retries
    /\ calls[max_retries].kind = "response"
    /\ ~calls[max_retries].id
    /\ upload_result = "ValueError"

\* ---------------------------------------------------------------- C35
\* C35: once an upload call has returned a response of the platform,
\* initialize_upload makes no further upload call, also when the response
\* carries no video id.
C35_NoCallAfterResponse ==
    \A i \in 1..Len(calls) - 1 : calls[i].kind # "response"

\* ---------------------------------------------------------------- steps
\* process_uploads with the calls of download_video and initialize_upload
\* taken step by step.

\* the longest queue of the step-by-step runs
MaxQueue == 2

\* insta_url and acc_name of the iteration that is under way
CurUrl == new_items_list[video_index][1]

CurAcc == account_services[((account_index - 1) % num_accounts) + 1]

\* the iteration goes on to its next statement
Proceed(next_pc) ==
    /\ pc' = next_pc
    /\ UNCHANGED <<files, upload_history, uploaded_count, skipped_count,
                   last_saved, save_faults, attempts, exc>>

\* what the candidate is found to be, as far as duration d is known
Found(json_ok, remote, file, d) ==
    [json_ok |-> json_ok, remote |-> remote, file |-> file,
     download_ok |-> TRUE, duration |-> d, answer |-> "success"]

\* The head of an iteration, up to the download: the round-robin, the
\* catalog entry and the file at the local path.
iteration_begin ==
    /\ pc = "loop"
    /\ LoopCond
    /\ video_index' = NextIndex
    /\ attempt' = 0
    /\ retry_delay' = 1
    /\ upload_result' = "none"
    /\ calls' = << >>
    /\ sleeps' = << >>
    /\ download_result' = "none"
    /\ LET insta_url == new_items_list[video_index + 1][1] IN
       IF Slot >= Len(account_services)
       THEN /\ Escapes(insta_url, "none", "IndexError")
            /\ account_index' = account_index
            /\ local_path' = "absent"
       ELSE LET acc_name == account_services[Slot + 1] IN
            /\ account_index' = account_index + 1
            /\ \E json_ok, remote \in BOOLEAN,
                  file \in {"missing", "empty", "ok"} :
                 LET e == Found(json_ok, remote, file, ShortsLimit)
                     o == PreUploadOutcome(e)
                 IN  /\ ~json_ok => ~remote /\ file = "missing"
                     /\ IF o # "ready"
                        THEN /\ StoreAndGo(insta_url, acc_name, o, "none",
                                           FALSE)
                             /\ local_path' = "absent"
                        ELSE IF remote /\ file # "ok"
                        THEN /\ Proceed("get")
                             /\ local_path' = IF file = "missing"
                                              THEN "absent" ELSE "empty"
                        ELSE /\ Proceed("probe")
                             /\ local_path' = "ok"
    /\ UNCHANGED <<args, observed, tagging, new_items_list, duplicates,
                   account_services, num_accounts, exit_code, run_start>>

\* download_video has returned or raised.
iteration_downloaded ==
    /\ pc = "download_done"
    /\ IF download_result = "raised"
       THEN StoreAndGo(CurUrl, CurAcc, "download_failed", "none", FALSE)
       ELSE Proceed("probe")
    /\ UNCHANGED <<args, observed, tagging, uploader, downloader,
                   new_items_list, duplicates, account_services,
                   num_accounts, video_index, account_index, exit_code,
                   run_start>>

\* The file is ready: the duration check and the upscale step, up to the
\* call of initialize_upload.
iteration_probe ==
    /\ pc = "probe"
    /\ \E d \in Durations :
         LET o == PreUploadOutcome(Found(TRUE, FALSE, "ok", d)) IN
         IF o # "ready"
         THEN StoreAndGo(CurUrl, CurAcc, o, "none", FALSE)
         ELSE IF upscale
         THEN Escapes(CurUrl, CurAcc, "AttributeError")
         ELSE Proceed("execute")
    /\ attempt' = 0
    /\ retry_delay' = 1
    /\ calls' = << >>
    /\ sleeps' = << >>
    /\ UNCHANGED <<args, observed, tagging, downloader, upload_result,
                   new_items_list, duplicates, account_services,
                   num_accounts, video_index, account_index, exit_code,
                   run_start>>

\* the outcome of the iteration whose initialize_upload call ended with r
OutcomeOfUpload(r) ==
    IF r = "video_id" THEN "success"
    ELSE IF r = "QuotaExceededError" THEN "quota"
    ELSE "upload_error"

\* initialize_upload has returned or raised.
iteration_uploaded ==
    /\ pc = "upload_done"
    /\ StoreAndGo(CurUrl, CurAcc, OutcomeOfUpload(upload_result), "none",
                  FALSE)
    /\ UNCHANGED <<args, observed, tagging, uploader, downloader,
                   new_items_list, duplicates, account_services,
                   num_accounts, video_index, account_index, exit_code,
                   run_start>>

InitSteps ==
    /\ catalogFile \in {CatalogText([i \in 1..n |-> <<i, "D1">>]) :
                            n \in 1..MaxQueue}
    /\ catalog = CatalogKeys(catalogFile)
    /\ account_names \in {<<"a">>, <<"a", "b">>, <<"a", "a">>}
    /\ auth_ok = AccountNames
    /\ target_successes \in -1..MaxTarget
    /\ upscale \in BOOLEAN
    /\ batch_limit = 0
    /\ upload_one_mode = FALSE
    /\ histFile = FileAbsent
    /\ backupFile = FileAbsent
    /\ Fresh

NextSteps ==
    \/ MainOnce
    \/ iteration_begin
    \/ download_video_attempt
    \/ iteration_downloaded
    \/ iteration_probe
    \/ initialize_upload_execute
    \/ iteration_uploaded
    \/ LoopExit

\* The process keeps running and every call of a collaborator ends.
SpecSteps == InitSteps /\ [][NextSteps]_vars /\ WF_vars(NextSteps)

C32_WitnessNoTarget ==
    /\ pc = "returned"
    /\ target_successes <= 0
    /\ new_items_list # << >>
    /\ attempts = << >>

\* ---------------------------------------------------------------- C36
\* process_uploads has returned or raised, or was not called
Ended == pc \in {"returned", "raised", "aborted"}

\* C36: process_uploads always terminates: it returns or raises, after at
\* most len(queue) iterations, and no iteration makes more than 3 download
\* attempts or more than 3 upload calls.
C36_Terminates ==
    /\ <>Ended
    /\ [](/\ video_index <= Len(new_items_list)
          /\ Len(attempts) <= video_index
          /\ pc \in {"get", "download_done"} =>
                /\ attempt < download_max_retries
                /\ Len(calls) <= download_max_retries
          /\ pc \in {"execute", "upload_done"} =>
                /\ attempt < max_retries
                /\ Len(calls) <= max_retries)

\* a run that used every iteration of its queue, the last one with three
\* upload calls after a download that needed three attempts
C36_Witness ==
    /\ pc = "returned"
    /\ video_index = MaxQueue
    /\ Len(new_items_list) = MaxQueue
    /\ download_result = "returned"
    /\ Len(calls) = max_retries
    /\ attempts[MaxQueue].outcome = "upload_error"

====
